---- MODULE Spec2Model ----
(***************************************************************************)
(* A model of src/robot-simulator.js: the Robot class (orientation and     *)
(* coords fields, orient / at / place / turnLeft / turnRight / advance /   *)
(* evaluate), the static decoder Robot.instructions, and the validation    *)
(* helpers.  Every operation is one action; the action records the call,   *)
(* its argument, the error it raised and the state before the call, so     *)
(* that the properties of the operations are invariants of the model.      *)
(* Coordinates are modelled as integers: the arithmetic of advance is      *)
(* exact, as it is for JavaScript numbers that are safe integers.          *)
(***************************************************************************)
EXTENDS Integers, Sequences, FiniteSets, TLC

(* ------------------------------ bounds -------------------------------- *)

\* coordinates stay within -MaxCoord .. MaxCoord
MaxCoord == 2
\* command strings over A, L, R have at most MaxLen characters
MaxLen == 4
\* command strings over the whole alphabet (lower case and illegal
\* characters included) have at most MaxMixedLen characters
MaxMixedLen == 3
\* arguments of the decoder have at most MaxDecodeLen characters
MaxDecodeLen == 3
\* two evaluate calls are made in a row when each command string has at most
\* MaxPartLen characters
MaxPartLen == 2
\* and also when each command string, of the characters A, L, R in either
\* case, has at most MaxCasePartLen characters
MaxCasePartLen == 1

(* --------------------------- JavaScript values ------------------------ *)

\* the value of a field that was never assigned, and of a missing key
Undefined == "<undefined>"

\* this.coords before the first assignment
NoCoords == << >>

Num(n) == [type |-> "number", nan |-> FALSE, n |-> n]
NaN == [type |-> "number", nan |-> TRUE, n |-> 0]
UndefinedValue == [type |-> "undefined", nan |-> FALSE, n |-> 0]

Str(chars) == [type |-> "string", chars |-> chars]
NotAString == [type |-> "undefined", chars |-> << >>]

NoArg == [type |-> "none"]

(* --------------------------- validation helpers ----------------------- *)

validateNumber(num) == num.type = "number" /\ ~num.nan

validateString(str) == str.type = "string"

validateObject(obj) == obj.kind = "object"

(* ------------------------------- Robot -------------------------------- *)

directions == <<"north", "east", "south", "west">>

\* Array.prototype.includes
includes(arr, v) == \E i \in 1..Len(arr) : arr[i] = v

\* Array.prototype.indexOf: the zero-based index of the first match, or -1
indexOf(arr, v) ==
    IF includes(arr, v)
    THEN (CHOOSE i \in 1..Len(arr) :
             arr[i] = v /\ \A j \in 1..(i - 1) : arr[j] # v) - 1
    ELSE -1

\* A robot with the outcome of the call made on it: r.err is "none" when the
\* call returned, the name of the error's class when it threw.
Returned(o, c) == [orientation |-> o, coords |-> c, err |-> "none"]
Threw(r, e) == [orientation |-> r.orientation, coords |-> r.coords, err |-> e]

orient_ignore_case(r, o) ==
    LET lower == IF o = "North" THEN "north" ELSE o
    IN  IF ~includes(directions, lower)
        THEN Threw(r, "InvalidInputError")
        ELSE Returned(lower, r.coords)
orient_unchecked(r, o) == Returned(o, r.coords)
orient_resets_position(r, o) ==
    IF ~includes(directions, o)
    THEN Threw(r, "InvalidInputError")
    ELSE Returned(o, IF r.coords = NoCoords THEN r.coords ELSE <<0, 0>>)
orient(r, o) ==
    IF ~includes(directions, o)
    THEN Threw(r, "InvalidInputError")
    ELSE Returned(o, r.coords)

bearing(r) == r.orientation

coordinates(r) == r.coords

turn_same_step(r, turnDirection) ==
    LET direction == 1
        currentDirectionIndex == indexOf(directions, bearing(r))
        newOrientation ==
            directions[((currentDirectionIndex + direction) % Len(directions)) + 1]
    IN  orient(r, newOrientation)
turn_left_two(r, turnDirection) ==
    LET direction == IF turnDirection.chars = "right" THEN 1 ELSE 2
        currentDirectionIndex == indexOf(directions, bearing(r))
        newOrientation ==
            directions[((currentDirectionIndex + direction) % Len(directions)) + 1]
    IN  orient(r, newOrientation)
turn_mod_three(r, turnDirection) ==
    LET direction == IF turnDirection.chars = "right" THEN 1 ELSE 3
        currentDirectionIndex == indexOf(directions, bearing(r))
        newOrientation ==
            directions[((currentDirectionIndex + direction) % (Len(directions) - 1)) + 1]
    IN  orient(r, newOrientation)
turn(r, turnDirection) ==
    IF ~validateString(turnDirection)
    THEN Threw(r, "InvalidInputError")
    ELSE LET direction == IF turnDirection.chars = "right" THEN 1 ELSE 3
             currentDirectionIndex == indexOf(directions, bearing(r))
             newOrientation ==
                 directions[((currentDirectionIndex + direction) % Len(directions)) + 1]
         IN  orient(r, newOrientation)

turnRight(r) == turn(r, Str("right"))

turnLeft(r) == turn(r, Str("left"))

at_swapped(r, x, y) ==
    IF ~validateNumber(x) \/ ~validateNumber(y)
    THEN Threw(r, "InvalidInputError")
    ELSE Returned(r.orientation, <<y.n, x.n>>)
at(r, x, y) ==
    IF ~validateNumber(x) \/ ~validateNumber(y)
    THEN Threw(r, "InvalidInputError")
    ELSE Returned(r.orientation, <<x.n, y.n>>)

\* this.coords[i]++ and this.coords[i]--: reading an index of undefined throws
bump(r, i, d) ==
    IF r.coords = NoCoords
    THEN Threw(r, "TypeError")
    ELSE Returned(r.orientation, [r.coords EXCEPT ![i] = @ + d])

advance_south_up(r) ==
    CASE r.orientation = "north" -> bump(r, 2, 1)
      [] r.orientation = "east"  -> bump(r, 1, 1)
      [] r.orientation = "south" -> bump(r, 2, 1)
      [] r.orientation = "west"  -> bump(r, 1, -1)
      [] OTHER -> Returned(r.orientation, r.coords)
advance_default_north(r) ==
    CASE r.orientation = "east"  -> bump(r, 1, 1)
      [] r.orientation = "south" -> bump(r, 2, -1)
      [] r.orientation = "west"  -> bump(r, 1, -1)
      [] OTHER -> bump(r, 2, 1)
advance(r) ==
    CASE r.orientation = "north" -> bump(r, 2, 1)
      [] r.orientation = "east"  -> bump(r, 1, 1)
      [] r.orientation = "south" -> bump(r, 2, -1)
      [] r.orientation = "west"  -> bump(r, 1, -1)
      [] OTHER -> Returned(r.orientation, r.coords)

\* Robot.commands[instruction]: a key the table lacks reads as undefined
commands(instruction) ==
    CASE instruction = "A" -> "advance"
      [] instruction = "L" -> "turnLeft"
      [] instruction = "R" -> "turnRight"
      [] OTHER -> Undefined

\* String.prototype.toUpperCase, on the characters of the model's alphabet
toUpperCaseChar(c) ==
    CASE c = "a" -> "A"
      [] c = "l" -> "L"
      [] c = "r" -> "R"
      [] OTHER -> c

toUpperCase(chars) == [i \in 1..Len(chars) |-> toUpperCaseChar(chars[i])]

\* /^[ARL]+$/.test(chars)
regexTest_first(chars) == Len(chars) >= 1 /\ chars[1] \in {"A", "R", "L"}
regexTest_star(chars) == \A i \in 1..Len(chars) : chars[i] \in {"A", "R", "L"}
regexTest(chars) ==
    /\ Len(chars) >= 1
    /\ \A i \in 1..Len(chars) : chars[i] \in {"A", "R", "L"}

\* Robot.instructions: [err, ret], ret the returned array
instructions(a) ==
    IF ~validateString(a) \/ ~regexTest(toUpperCase(a.chars))
    THEN [err |-> "InvalidInputError", ret |-> << >>]
    ELSE [err |-> "none",
          ret |-> [i \in 1..Len(a.chars) |-> commands(a.chars[i])]]

\* this[instruction](): a name that is no method of the robot is not callable
call(r, instruction) ==
    CASE instruction = "advance"   -> advance(r)
      [] instruction = "turnLeft"  -> turnLeft(r)
      [] instruction = "turnRight" -> turnRight(r)
      [] OTHER -> Threw(r, "TypeError")

\* instructionsCommands.forEach(...) from index i on: a throw ends the loop.
\* ran counts the callbacks that returned.
RECURSIVE forEach(_, _, _)
forEach(r, cmds, i) ==
    IF i > Len(cmds)
    THEN [orientation |-> r.orientation, coords |-> r.coords,
          err |-> "none", ran |-> i - 1]
    ELSE LET s == call(r, cmds[i])
         IN  IF s.err # "none"
             THEN [orientation |-> s.orientation, coords |-> s.coords,
                   err |-> s.err, ran |-> i - 1]
             ELSE forEach(s, cmds, i + 1)

evaluate(r, a) ==
    LET instructionsCommands == instructions(a)
    IN  IF instructionsCommands.err # "none"
        THEN [orientation |-> r.orientation, coords |-> r.coords,
              err |-> instructionsCommands.err, ran |-> 0]
        ELSE forEach(r, instructionsCommands.ret, 1)

place(r, placement) ==
    IF ~validateObject(placement) THEN Threw(r, "Error")
    ELSE IF placement.keys = 0 THEN Threw(r, "Error")
    ELSE LET placed == at(r, placement.x, placement.y)
         IN  IF placed.err # "none" THEN placed
             ELSE orient(placed, placement.direction)

\* the number of consecutive turns the model remembers: one full cycle
MaxRun == Len(directions)

(* ------------------------------- inputs ------------------------------- *)

\* the characters of command strings: the three commands in both cases, and
\* one character that is no command
Alphabet == {"A", "L", "R", "a", "l", "r", "X"}

\* the characters the regular expression of Robot.instructions accepts once
\* the string is upper-cased
CommandChars == {"A", "L", "R", "a", "l", "r"}

StringsOver(chars, lo, hi) == UNION {[1..k -> chars] : k \in lo..hi}

EvaluateArgs ==
    {Str(s) : s \in StringsOver({"A", "L", "R"}, 1, MaxLen)
                    \cup StringsOver(Alphabet, 0, MaxMixedLen)}
    \cup {NotAString}

DecodeArgs == {Str(s) : s \in StringsOver(Alphabet, 0, MaxDecodeLen)} \cup {NotAString}

PlaceValues == {Num(n) : n \in {-1, 0, 1}} \cup {NaN, UndefinedValue}

DirectionArgs == {"north", "east", "south", "west", "North", Undefined}

Placements ==
    {[kind |-> "object", keys |-> 3, x |-> x, y |-> y, direction |-> d] :
        x \in PlaceValues, y \in PlaceValues, d \in DirectionArgs}
    \cup {[kind |-> k, keys |-> 0, x |-> UndefinedValue, y |-> UndefinedValue,
           direction |-> Undefined] : k \in {"object", "array", "null"}}

(* ---------------------------- state machine --------------------------- *)

VARIABLES
    orientation,  \* this.orientation
    coords,       \* this.coords
    op,           \* the call that has just ended, "idle" between calls
    arg,          \* its argument
    err,          \* the class of the error it threw, or "none"
    ran,          \* evaluate: the number of instructions that were executed
    ret,          \* Robot.instructions: the array it returned
    pre,          \* orientation and coords before the last call
    run,          \* the latest consecutive turns, each with the state before it
    held,         \* the array the caller got from the coordinates getter
    aliased,      \* whether that array is the robot's own this.coords
    got,          \* the contents of that array when the getter returned it
    earlier       \* evaluate made right after an evaluate: the earlier call

vars == <<orientation, coords, op, arg, err, ran, ret, pre, run,
          held, aliased, got, earlier>>

NoCall == [before |-> [orientation |-> Undefined, coords |-> NoCoords],
           chars |-> << >>]

Fresh == [orientation |-> Undefined, coords |-> NoCoords]

\* constructor
Init ==
    /\ orientation = Undefined
    /\ coords = NoCoords
    /\ op = "idle"
    /\ arg = NoArg
    /\ err = "none"
    /\ ran = 0
    /\ ret = << >>
    /\ pre = Fresh
    /\ run = << >>
    /\ held = NoCoords
    /\ aliased = FALSE
    /\ got = NoCoords
    /\ earlier = NoCall

Self == Returned(orientation, coords)

InRange(c) ==
    IF c = NoCoords THEN TRUE
    ELSE \A i \in 1..2 : c[i] >= -MaxCoord /\ c[i] <= MaxCoord

LastOf(s, n) == IF Len(s) <= n THEN s ELSE SubSeq(s, Len(s) - n + 1, Len(s))

Turns == {"turnLeft", "turnRight"}

\* A call is made between calls; a turn may also follow a turn at once, and
\* run then holds the turns made in a row.  While the caller holds the array
\* that the coordinates getter returned, it may write to it, or call advance
\* or place.
Idle == op = "idle"
Turning == op \in Turns \cup {"idle"}
Holding == op \in {"coordinates", "idle"}

\* The call `name(a)` took the robot to r, having executed n instructions;
\* assigned says that it assigned a new array to this.coords, otherwise the
\* array is the one it was and a change of its elements shows in every
\* reference to it.
Call(name, a, r, n, assigned) ==
    /\ InRange(r.coords)
    /\ aliased' = (aliased /\ ~assigned)
    /\ held' = IF aliased' THEN r.coords ELSE held
    /\ UNCHANGED got
    /\ earlier' = NoCall
    /\ orientation' = r.orientation
    /\ coords' = r.coords
    /\ err' = r.err
    /\ ran' = n
    /\ op' = name
    /\ arg' = a
    /\ pre' = [orientation |-> orientation, coords |-> coords]
    /\ run' = IF name \in Turns /\ r.err = "none"
              THEN LastOf(Append(run, [op |-> name, before |-> pre']), MaxRun)
              ELSE << >>
    /\ UNCHANGED ret

Step(name, a, r, n) == Call(name, a, r, n, FALSE)

\* place assigns this.coords when it reaches this.at(x, y) and at returns
Place ==
    /\ Holding
    /\ \E p \in Placements :
           Call("place", p, place(Self, p), 0,
                /\ validateObject(p)
                /\ p.keys # 0
                /\ at(Self, p.x, p.y).err = "none")

\* at called by the caller itself: it assigns this.coords when it returns
At ==
    /\ Holding
    /\ \E x \in PlaceValues, y \in PlaceValues :
           Call("at", <<x, y>>, at(Self, x, y), 0, at(Self, x, y).err = "none")

Orient == Idle /\ \E d \in DirectionArgs : Step("orient", d, orient(Self, d), 0)

TurnRight == Turning /\ Step("turnRight", NoArg, turnRight(Self), 0)

TurnLeft == Turning /\ Step("turnLeft", NoArg, turnLeft(Self), 0)

Advance == Holding /\ Step("advance", NoArg, advance(Self), 0)

Evaluate ==
    /\ Idle
    /\ \E a \in EvaluateArgs :
           LET r == evaluate(Self, a) IN Step("evaluate", a, r, r.ran)

\* The caller has looked at the outcome of the call and drops it; the robot is
\* as the call left it.
Forget ==
    /\ op # "idle"
    /\ op' = "idle"
    /\ arg' = NoArg
    /\ err' = "none"
    /\ ran' = 0
    /\ pre' = [orientation |-> orientation, coords |-> coords]
    /\ run' = << >>
    /\ held' = NoCoords
    /\ aliased' = FALSE
    /\ got' = NoCoords
    /\ earlier' = NoCall
    /\ ret' = << >>
    /\ UNCHANGED <<orientation, coords>>

\* get bearing
Bearing ==
    /\ Idle
    /\ op' = "bearing"
    /\ ret' = bearing(Self)
    /\ pre' = [orientation |-> orientation, coords |-> coords]
    /\ UNCHANGED <<orientation, coords, arg, err, ran, run, held, aliased, got, earlier>>

\* get coordinates: the caller receives this.coords itself, which is an array
\* once it has been assigned
Coordinates ==
    /\ Idle
    /\ op' = "coordinates"
    /\ held' = coordinates(Self)
    /\ got' = coordinates(Self)
    /\ aliased' = (coordinates(Self) # NoCoords)
    /\ pre' = [orientation |-> orientation, coords |-> coords]
    /\ UNCHANGED <<orientation, coords, arg, err, ran, ret, run, earlier>>

\* the caller assigns to an element of the array it holds
CallerWrite ==
    /\ op = "coordinates"
    /\ held # NoCoords
    /\ \E i \in 1..2, v \in -MaxCoord..MaxCoord :
          /\ v # held[i]
          /\ held' = [held EXCEPT ![i] = v]
          /\ coords' = IF aliased THEN [coords EXCEPT ![i] = v] ELSE coords
          /\ arg' = <<i, v>>
    /\ op' = "write"
    /\ pre' = [orientation |-> orientation, coords |-> coords]
    /\ UNCHANGED <<orientation, err, ran, ret, run, aliased, got, earlier>>

\* Robot.instructions called while a robot exists: a static method
Decode ==
    /\ Idle
    /\ \E a \in DecodeArgs :
          /\ arg' = a
          /\ err' = instructions(a).err
          /\ ret' = instructions(a).ret
    /\ op' = "instructions"
    /\ pre' = [orientation |-> orientation, coords |-> coords]
    /\ UNCHANGED <<orientation, coords, ran, run, held, aliased, got, earlier>>

\* the command strings of two evaluate calls made in a row: strings that pass
\* the test of Robot.instructions
Parts ==
    {Str(s) : s \in StringsOver({"A", "L", "R"}, 1, MaxPartLen)
                    \cup StringsOver(CommandChars, 1, MaxCasePartLen)}

PartChars(a) == a \in Parts

\* evaluate called right after an evaluate; the caller has caught the error
\* of the earlier call if it threw
EvaluateNext ==
    /\ op = "evaluate"
    /\ earlier = NoCall
    /\ PartChars(arg)
    /\ \E a \in Parts :
           LET r == evaluate(Self, a)
           IN  /\ InRange(r.coords)
               /\ orientation' = r.orientation
               /\ coords' = r.coords
               /\ err' = r.err
               /\ ran' = r.ran
               /\ arg' = a
    /\ earlier' = [before |-> pre, chars |-> arg.chars]
    /\ pre' = [orientation |-> orientation, coords |-> coords]
    /\ UNCHANGED <<op, ret, run, held, aliased, got>>

Next ==
    \/ Forget
    \/ Bearing
    \/ Coordinates
    \/ CallerWrite
    \/ Decode
    \/ EvaluateNext
    \/ Place
    \/ At
    \/ Orient
    \/ TurnRight
    \/ TurnLeft
    \/ Advance
    \/ Evaluate

Spec == Init /\ [][Next]_vars

(* --------------------- the decoder as a pure function ----------------- *)

InitDecode ==
    /\ orientation = Undefined
    /\ coords = NoCoords
    /\ op = "input"
    /\ arg \in DecodeArgs
    /\ err = "none"
    /\ ran = 0
    /\ ret = << >>
    /\ pre = Fresh
    /\ run = << >>
    /\ held = NoCoords
    /\ aliased = FALSE
    /\ got = NoCoords
    /\ earlier = NoCall

Instructions ==
    /\ op = "input"
    /\ op' = "instructions"
    /\ err' = instructions(arg).err
    /\ ret' = instructions(arg).ret
    /\ UNCHANGED <<orientation, coords, arg, ran, pre, run, held, aliased, got, earlier>>

NextDecode == Instructions

SpecDecode == InitDecode /\ [][NextDecode]_vars

(* ------------------------------ properties ---------------------------- *)

State == [orientation |-> orientation, coords |-> coords]

Placed(s) == s.orientation \in {"north", "east", "south", "west"} /\ s.coords # NoCoords

IsNumber(v) == v.type = "number" /\ ~v.nan

HasIllegalChar(chars) == \E i \in 1..Len(chars) : chars[i] \notin CommandChars

\* C1: a place call that raises leaves position and orientation as they were
\* before the call.
C1_PlaceFailureLeavesState ==
    (op = "place" /\ err # "none") =>
        (orientation = pre.orientation /\ coords = pre.coords)

\* C2: an evaluate call either executes every instruction of the command
\* string and returns, or raises and leaves position and orientation as they
\* were before the call.
C2_EvaluateAllOrNothing ==
    op = "evaluate" =>
        \/ err = "none" /\ arg.type = "string" /\ ran = Len(arg.chars)
        \/ err # "none" /\ State = pre

\* C3: evaluate of a command string with a character other than A, L, R (in
\* either case), wherever it stands, raises InvalidInput and executes no
\* instruction: position and orientation are unchanged.
C3_EvaluateIllegalCharRejected ==
    (op = "evaluate" /\ arg.type = "string" /\ HasIllegalChar(arg.chars)) =>
        (err = "InvalidInputError" /\ ran = 0 /\ State = pre)

C3_Witness ==
    /\ op = "evaluate"
    /\ arg = Str(<<"A", "L", "X">>)
    /\ Placed(pre)
    /\ err = "InvalidInputError"

\* the instruction a command character stands for, in either case
InstructionOf(c) ==
    CASE c \in {"A", "a"} -> "advance"
      [] c \in {"L", "l"} -> "turnLeft"
      [] c \in {"R", "r"} -> "turnRight"

\* C4: for a non-empty string of the characters A, L, R, a, l, r the decoder
\* returns one instruction per character: advance for A or a, turnLeft for L
\* or l, turnRight for R or r.
C4_DecodeCaseInsensitive ==
    (/\ op = "instructions"
     /\ arg.type = "string"
     /\ Len(arg.chars) >= 1
     /\ ~HasIllegalChar(arg.chars)) =>
        /\ err = "none"
        /\ Len(ret) = Len(arg.chars)
        /\ \A i \in 1..Len(arg.chars) : ret[i] = InstructionOf(arg.chars[i])

\* C5: the decoder raises InvalidInput and returns no sequence for the empty
\* string, for a string with any character outside A, L, R (either case) and
\* for an argument that is no string.
C5_DecodeRejects ==
    (/\ op = "instructions"
     /\ \/ arg.type # "string"
        \/ arg.chars = << >>
        \/ HasIllegalChar(arg.chars)) =>
        (err = "InvalidInputError" /\ ret = << >>)

C5_Witness ==
    /\ op = "instructions"
    /\ arg = Str(<<"A", "L", "X">>)
    /\ err = "InvalidInputError"

LAAR == <<"L", "A", "A", "R">>

\* a valid command string: a non-empty string of the characters A, L, R in
\* either case
ValidCommandString(a) ==
    /\ a.type = "string"
    /\ Len(a.chars) >= 1
    /\ ~HasIllegalChar(a.chars)

\* the robot after advance for each A, turnLeft for each L and turnRight for
\* each R of chars (in either case), from character i on, in the order of the
\* string
RECURSIVE InOrder(_, _, _)
InOrder(r, chars, i) ==
    IF i > Len(chars) THEN r
    ELSE InOrder(CASE InstructionOf(chars[i]) = "advance"   -> advance(r)
                   [] InstructionOf(chars[i]) = "turnLeft"  -> turnLeft(r)
                   [] InstructionOf(chars[i]) = "turnRight" -> turnRight(r),
                 chars, i + 1)

\* C6: on a placed robot, evaluate of a valid command string leaves the robot
\* where advance for each A, turnLeft for each L and turnRight for each R,
\* called in the order of the string, leave it, no instruction skipped,
\* repeated or reordered; LAAR from (0, 0) facing north ends at (-2, 0)
\* facing north.
C6_EvaluateInOrder ==
    (/\ op = "evaluate"
     /\ ValidCommandString(arg)
     /\ Placed(pre)) =>
        /\ ran = Len(arg.chars)
        /\ LET r == InOrder(Returned(pre.orientation, pre.coords), arg.chars, 1)
           IN  orientation = r.orientation /\ coords = r.coords
        /\ (arg.chars = LAAR /\ pre = [orientation |-> "north", coords |-> <<0, 0>>])
              => (coords = <<-2, 0>> /\ orientation = "north")

\* the part of C6 that the code keeps: command strings of the upper-case
\* characters A, L, R
EvaluateInOrderUpperCase ==
    (/\ op = "evaluate"
     /\ ValidCommandString(arg)
     /\ \A i \in 1..Len(arg.chars) : arg.chars[i] \in {"A", "L", "R"}
     /\ Placed(pre)) =>
        /\ err = "none"
        /\ ran = Len(arg.chars)
        /\ LET r == InOrder(Returned(pre.orientation, pre.coords), arg.chars, 1)
           IN  orientation = r.orientation /\ coords = r.coords

\* C7: place with two valid numbers and one of the four directions succeeds
\* whatever the state before it; coordinates is then (x, y) and bearing the
\* direction.
C7_PlaceSetsState ==
    (/\ op = "place"
     /\ arg.kind = "object"
     /\ arg.keys > 0
     /\ IsNumber(arg.x)
     /\ IsNumber(arg.y)
     /\ arg.direction \in {"north", "east", "south", "west"}) =>
        /\ err = "none"
        /\ coordinates(State) = <<arg.x.n, arg.y.n>>
        /\ bearing(State) = arg.direction

C7_Witness ==
    /\ op = "place"
    /\ err = "none"
    /\ Placed(pre)
    /\ pre.coords = <<2, -2>>
    /\ pre.orientation = "west"
    /\ coords = <<-1, 1>>
    /\ orientation = "east"

\* C8: advance on a placed robot at (x, y) moves it to (x, y+1) facing north,
\* (x+1, y) facing east, (x, y-1) facing south, (x-1, y) facing west, raises
\* nothing and keeps the orientation; coordinates may become negative.
C8_AdvanceMovesOne ==
    (op = "advance" /\ Placed(pre)) =>
        /\ err = "none"
        /\ orientation = pre.orientation
        /\ LET x == pre.coords[1]
               y == pre.coords[2]
           IN  coords = CASE pre.orientation = "north" -> <<x, y + 1>>
                          [] pre.orientation = "east"  -> <<x + 1, y>>
                          [] pre.orientation = "south" -> <<x, y - 1>>
                          [] pre.orientation = "west"  -> <<x - 1, y>>

C8_Witness ==
    /\ op = "advance"
    /\ err = "none"
    /\ pre = [orientation |-> "south", coords |-> <<0, -1>>]
    /\ coords = <<0, -2>>

Clockwise(o) ==
    CASE o = "north" -> "east"
      [] o = "east"  -> "south"
      [] o = "south" -> "west"
      [] o = "west"  -> "north"

CounterClockwise(o) ==
    CASE o = "north" -> "west"
      [] o = "west"  -> "south"
      [] o = "south" -> "east"
      [] o = "east"  -> "north"

\* C9: on a placed robot turnRight takes north to east, east to south, south
\* to west and west to north, and turnLeft takes north to west, west to south,
\* south to east and east to north.
C9_TurnsOneStep ==
    (op \in Turns /\ Placed(pre)) =>
        /\ err = "none"
        /\ op = "turnRight" => orientation = Clockwise(pre.orientation)
        /\ op = "turnLeft" => orientation = CounterClockwise(pre.orientation)

C9_Witness ==
    /\ op = "turnLeft"
    /\ err = "none"
    /\ Placed(pre)
    /\ pre.orientation = "north"
    /\ orientation = "west"

\* the last two turns were made in a row on a placed robot, one each way
OppositeTurns(first, second) ==
    /\ Len(run) >= 2
    /\ run[Len(run) - 1].op = first
    /\ run[Len(run)].op = second
    /\ Placed(run[Len(run) - 1].before)

\* C10: turnRight then turnLeft, and turnLeft then turnRight, leave a placed
\* robot with the orientation and the position it started with.
C10_TurnsAreInverse ==
    (OppositeTurns("turnRight", "turnLeft") \/ OppositeTurns("turnLeft", "turnRight")) =>
        State = run[Len(run) - 1].before

C10_Witness ==
    /\ OppositeTurns("turnRight", "turnLeft")
    /\ run[Len(run) - 1].before = [orientation |-> "west", coords |-> <<1, -1>>]
    /\ run[Len(run)].before.orientation = "north"
    /\ orientation = "west"

\* the last k turns were made in a row, all of them `turn`, from a robot whose
\* orientation was set
SameTurns(k, which) ==
    /\ Len(run) >= k
    /\ \A i \in (Len(run) - k + 1)..Len(run) : run[i].op = which
    /\ run[Len(run) - k + 1].before.orientation \in {"north", "east", "south", "west"}

\* C11: four turnRight calls in a row, and four turnLeft calls in a row, end
\* with the orientation they started with; one, two or three do not.
C11_TurnCycleIsFour ==
    \A which \in Turns : \A k \in 1..Len(run) :
        SameTurns(k, which) =>
            LET start == run[Len(run) - k + 1].before.orientation
            IN  /\ k = Len(directions) => orientation = start
                /\ k < Len(directions) => orientation # start

C11_Witness ==
    /\ SameTurns(Len(directions), "turnLeft")
    /\ run[1].before = [orientation |-> "east", coords |-> <<0, 0>>]
    /\ orientation = "east"

\* C12: orient raises InvalidInput for an argument that is not exactly north,
\* east, south or west (North is rejected) and then leaves orientation and
\* position unchanged; for each of the four names it sets the orientation.
C12_OrientValidates ==
    op = "orient" =>
        IF arg \in {"north", "east", "south", "west"}
        THEN err = "none" /\ orientation = arg
        ELSE err = "InvalidInputError" /\ State = pre

C12_Witness ==
    /\ op = "orient"
    /\ arg = "North"
    /\ err = "InvalidInputError"
    /\ pre = [orientation |-> "south", coords |-> <<1, 1>>]

\* C13: a value obtained from coordinates is isolated from the robot: the
\* caller changing it does not change the robot's position, and a later call
\* on the robot does not change it.
C13_CoordinatesByValue ==
    /\ op = "write" => coords = pre.coords
    /\ (op # "write" /\ got # NoCoords) => held = got

\* C14: every error that place, orient, turnLeft, turnRight, advance, evaluate
\* or the decoder raises is an InvalidInput error.
C14_SingleErrorKind ==
    (op \in {"place", "orient", "turnLeft", "turnRight", "advance", "evaluate",
             "instructions"} /\ err # "none") =>
        err = "InvalidInputError"

\* C15: once the orientation is set, every call, returning or raising, leaves
\* it one of north, east, south, west; it is never any other value.
C15_OrientationStaysValid ==
    /\ orientation \in {"north", "east", "south", "west", Undefined}
    /\ pre.orientation \in {"north", "east", "south", "west"} =>
           orientation \in {"north", "east", "south", "west"}

C15_Witness ==
    /\ op = "evaluate"
    /\ err # "none"
    /\ ran >= 1
    /\ pre.orientation = "north"
    /\ orientation = "west"

\* the calls that C16 and C19 are about: every call but orient and a place
\* that returned
NotInitializing ==
    \/ op \in {"turnLeft", "turnRight", "advance", "evaluate"}
    \/ op = "place" /\ err # "none"

\* C16: on a robot with neither orientation nor position, turnLeft, turnRight,
\* advance, evaluate and a place that raises leave both unset.
C16_OnlyPlaceInitializes ==
    (NotInitializing /\ pre = Fresh) => State = Fresh

\* C17: on a placed robot orient, turnLeft, turnRight, the bearing and
\* coordinates getters and the decoder, returning or raising, leave the
\* position unchanged.
C17_PositionFrame ==
    (/\ op \in {"orient", "turnLeft", "turnRight", "bearing", "coordinates",
                "instructions"}
     /\ Placed(pre)) =>
        coords = pre.coords

C17_Witness ==
    /\ op = "orient"
    /\ arg = "east"
    /\ err = "none"
    /\ pre = [orientation |-> "north", coords |-> <<1, -1>>]
    /\ orientation = "east"
    /\ coords = <<1, -1>>

\* C18: advance on a robot whose orientation is unset raises nothing and leaves
\* position and orientation unchanged; advance on a placed robot never raises.
C18_AdvanceNeverRaises ==
    /\ (op = "advance" /\ pre.orientation = Undefined) =>
           (err = "none" /\ State = pre)
    /\ (op = "advance" /\ Placed(pre)) => err = "none"

C18_Witness ==
    /\ op = "advance"
    /\ err = "none"
    /\ pre = [orientation |-> Undefined, coords |-> <<1, 0>>]
    /\ coords = <<1, 0>>

BothOrNeither(s) == (s.orientation = Undefined) <=> (s.coords = NoCoords)

\* C19: place, turnLeft, turnRight, advance and evaluate, returning or raising,
\* take a robot whose orientation and position are both unset or both set to
\* a robot whose orientation and position are both unset or both set.
C19_BothOrNeither ==
    (/\ op \in {"place", "turnLeft", "turnRight", "advance", "evaluate"}
     /\ BothOrNeither(pre)) =>
        BothOrNeither(State)

\* evaluate(t) was called right after evaluate(s) on a placed robot, s and t
\* valid command strings
TwoEvaluates ==
    /\ op = "evaluate"
    /\ earlier # NoCall
    /\ Placed(earlier.before)
    /\ ValidCommandString(Str(earlier.chars))
    /\ ValidCommandString(arg)

\* one evaluate of s followed by t, on the robot that evaluate(s) was called on
Joined ==
    evaluate(Returned(earlier.before.orientation, earlier.before.coords),
             Str(earlier.chars \o arg.chars))

\* C20: on a placed robot, for valid command strings s and t, evaluate(s)
\* followed by evaluate(t) ends with the position and the orientation that
\* one evaluate of s followed by t ends with.
C20_EvaluateComposes ==
    TwoEvaluates =>
        (orientation = Joined.orientation /\ coords = Joined.coords)

\* the part of C20 that the code keeps: command strings of the upper-case
\* characters A, L, R
EvaluateComposesUpperCase ==
    (/\ TwoEvaluates
     /\ \A i \in 1..Len(earlier.chars) : earlier.chars[i] \in {"A", "L", "R"}
     /\ \A i \in 1..Len(arg.chars) : arg.chars[i] \in {"A", "L", "R"}) =>
        /\ err = "none"
        /\ Joined.err = "none"
        /\ orientation = Joined.orientation
        /\ coords = Joined.coords

====
